---------------------------- MODULE Spec2Model ----------------------------
(***************************************************************************)
(* A model of the two tools of the audio-tools site.                       *)
(*                                                                         *)
(*   LFOEffects        src/src/tools/LFOEffects.tsx                        *)
(*   BiquadVisualizer  src/src/tools/BiquadVisualizer.tsx                  *)
(*                                                                         *)
(* Units.  TLC has integers only, so every real quantity is held as an     *)
(* integer multiple of a fixed unit:                                       *)
(*   lfoRate and the LFO oscillator frequency   half hertz (slider step    *)
(*                                              0.5: 5 Hz is 10)           *)
(*   carrierFreq, oscillator frequency          hertz                      *)
(*   depth                                      percent                    *)
(*   gains of the audio graph                   thousandths (0.3 is 300)   *)
(*                                                                         *)
(* One event handler, together with the re-render and the effects React    *)
(* runs for it, is one action: the browser runs a handler to completion,   *)
(* and an async function runs to its first await and later from the await  *)
(* to its end.                                                             *)
(***************************************************************************)
EXTENDS Integers, Sequences, FiniteSets, TLC

VARIABLES
    lfo,            \* useState of LFOEffects: carrierFreq, lfoRate, depth, isPlaying
    lfoMounted,     \* LFOEffects is on the page
    refs,           \* useRef of LFOEffects: the four audio node handles
    ctxState,       \* audioContextRef.current: "null", or the context's state
    calls,          \* the playSound invocations so far, in order
    graphs,         \* the audio nodes created so far, one entry per playSound that got that far
    drawn,          \* the parameters the canvas was last drawn with
    uncaught,       \* handlers whose exception or rejection nobody handled
    lastStop,       \* observation: the stop() calls the last stopSound made; -1
                    \* when none ran since handles were last stored
    biquad,         \* useState of BiquadVisualizer
    biquadMounted,  \* BiquadVisualizer is on the page
    intervals,      \* the delays of the setInterval timers that are set and not cleared
    run,            \* observation: the timer ticks since the last user action
    wave,           \* the sample loop of drawWaveform
    line            \* a delay line the update of step 7 is applied to

lfoVars == <<lfo, lfoMounted, refs, ctxState, calls, graphs, drawn, uncaught, lastStop>>
biquadVars == <<biquad, biquadMounted, intervals, run>>
otherThanLfo == <<biquad, biquadMounted, intervals, run, wave, line>>
otherThanBiquad == <<lfo, lfoMounted, refs, ctxState, calls, graphs, drawn, uncaught, lastStop, wave, line>>
vars == <<lfo, lfoMounted, refs, ctxState, calls, graphs, drawn, uncaught, lastStop,
          biquad, biquadMounted, intervals, run, wave, line>>

Null == 0

-----------------------------------------------------------------------------
(* Bounds of the model.                                                    *)

\* playSound invocations in one lifetime of the component
MaxPlays == 2

\* values the sliders take in the audio specification (defaults first)
CarrierVals == {440, 880}
RateVals == {10, 80}
DepthVals == {100, 50}

-----------------------------------------------------------------------------
(* LFOEffects: the sliders' ranges.                                        *)

CarrierRange == {200 + 10 * k : k \in 0..80}
RateRange == 1..400
DepthRange == 0..100

-----------------------------------------------------------------------------
(* LFOEffects: getEffectInfo.                                              *)

\* Number.prototype.toFixed(0) of n/2 for n >= 0: the nearest integer, the
\* larger one on a tie.
ToFixed0Halves(n) == (n + 1) \div 2

\* the thresholds tested with <= in place of <
getEffectInfoInclusive(s) ==
    IF s.lfoRate <= 2 * 20
    THEN [type |-> "TREMOLO EFFECT", icon |-> "speaker",
          pulses |-> s.lfoRate, pitch |-> s.carrierFreq,
          lower |-> Null, upper |-> Null]
    ELSE IF s.lfoRate <= 2 * 50
    THEN [type |-> "TRANSITION ZONE", icon |-> "bolt",
          pulses |-> Null, pitch |-> Null,
          lower |-> ToFixed0Halves(2 * s.carrierFreq - s.lfoRate),
          upper |-> ToFixed0Halves(2 * s.carrierFreq + s.lfoRate)]
    ELSE [type |-> "RING MODULATION", icon |-> "guitar",
          pulses |-> Null, pitch |-> s.carrierFreq,
          lower |-> ToFixed0Halves(2 * s.carrierFreq - s.lfoRate),
          upper |-> ToFixed0Halves(2 * s.carrierFreq + s.lfoRate)]

getEffectInfo(s) ==
    IF s.lfoRate < 2 * 20
    THEN [type |-> "TREMOLO EFFECT", icon |-> "speaker",
          pulses |-> s.lfoRate, pitch |-> s.carrierFreq,
          lower |-> Null, upper |-> Null]
    ELSE IF s.lfoRate < 2 * 50
    THEN [type |-> "TRANSITION ZONE", icon |-> "bolt",
          pulses |-> Null, pitch |-> Null,
          lower |-> ToFixed0Halves(2 * s.carrierFreq - s.lfoRate),
          upper |-> ToFixed0Halves(2 * s.carrierFreq + s.lfoRate)]
    ELSE [type |-> "RING MODULATION", icon |-> "guitar",
          pulses |-> Null, pitch |-> s.carrierFreq,
          lower |-> ToFixed0Halves(2 * s.carrierFreq - s.lfoRate),
          upper |-> ToFixed0Halves(2 * s.carrierFreq + s.lfoRate)]

effectInfo == getEffectInfo(lfo)

-----------------------------------------------------------------------------
(* LFOEffects: state after the first render.                               *)

Params(s) == [carrierFreq |-> s.carrierFreq, lfoRate |-> s.lfoRate, depth |-> s.depth]

NoClosure == [carrierFreq |-> 0, lfoRate |-> 0, depth |-> 0]

LfoInitWith(c, r, d) ==
    /\ lfo = [carrierFreq |-> c, lfoRate |-> r, depth |-> d, isPlaying |-> FALSE]
    /\ lfoMounted = TRUE
    /\ refs = [oscillatorRef |-> Null, lfoOscillatorRef |-> Null,
               gainNodeRef |-> Null, lfoGainRef |-> Null]
    /\ ctxState = "null"
    /\ calls = << >>
    /\ graphs = << >>
    /\ drawn = [carrierFreq |-> c, lfoRate |-> r, depth |-> d]
    /\ uncaught = {}
    /\ lastStop = -1

\* useState(440), useState(5), useState(100)
LfoInit == LfoInitWith(440, 2 * 5, 100)

-----------------------------------------------------------------------------
(* LFOEffects: the effects that run after a render in which carrierFreq,   *)
(* lfoRate or depth changed.                                               *)

\* (depth / 100) * 0.3, in thousandths
LfoGainValue(d) == (d * 300) \div 100

\* gainNode.gain.value = 0.3, in thousandths
GainNodeValue == 300

\* fixed-point resolution of a sine value
SinScale == 1000

\* lfoOscillator -> lfoGain -> gainNode.gain: the gain the graph applies when
\* the LFO oscillator's output is l (a multiple of 1/SinScale) is the value
\* of gainNode.gain plus the LFO scaled by lfoGain
EffectiveGain(g, l) == g.gain + (g.lfoGain * l) \div SinScale

\* useEffect "Update audio parameters in real-time"
UpdateAudio(g, r, s) ==
    IF r.oscillatorRef # Null /\ r.lfoOscillatorRef # Null /\ r.lfoGainRef # Null
    THEN LET g1 == [g EXCEPT ![r.oscillatorRef].oscFreq = s.carrierFreq]
             g2 == [g1 EXCEPT ![r.lfoOscillatorRef].lfoFreq = s.lfoRate]
         IN  [g2 EXCEPT ![r.lfoGainRef].lfoGain = LfoGainValue(s.depth)]
    ELSE g

\* both effects, for the new state s
ParamEffects(s) ==
    /\ drawn' = Params(s)
    /\ graphs' = UpdateAudio(graphs, refs, s)

SetCarrierFreq(v) ==
    /\ lfoMounted
    /\ v # lfo.carrierFreq
    /\ lfo' = [lfo EXCEPT !.carrierFreq = v]
    /\ ParamEffects(lfo')
    /\ UNCHANGED <<lfoMounted, refs, ctxState, calls, uncaught, lastStop>>
    /\ UNCHANGED otherThanLfo

SetLfoRate(v) ==
    /\ lfoMounted
    /\ v # lfo.lfoRate
    /\ lfo' = [lfo EXCEPT !.lfoRate = v]
    /\ ParamEffects(lfo')
    /\ UNCHANGED <<lfoMounted, refs, ctxState, calls, uncaught, lastStop>>
    /\ UNCHANGED otherThanLfo

SetDepth(v) ==
    /\ lfoMounted
    /\ v # lfo.depth
    /\ lfo' = [lfo EXCEPT !.depth = v]
    /\ ParamEffects(lfo')
    /\ UNCHANGED <<lfoMounted, refs, ctxState, calls, uncaught, lastStop>>
    /\ UNCHANGED otherThanLfo

-----------------------------------------------------------------------------
(* LFOEffects: playSound.  The call runs to `await resume()` when the      *)
(* context is suspended and to its end otherwise; the part after the await *)
(* runs when the promise settles, with the carrierFreq, lfoRate and depth  *)
(* of the render whose handler was clicked.                                *)

\* setIsPlaying: React drops a state update of a component that is gone
SetIsPlaying(b) == lfo' = IF lfoMounted THEN [lfo EXCEPT !.isPlaying = b] ELSE lfo

Settle(k, status) == calls' = [calls EXCEPT ![k] = [status |-> status, closure |-> NoClosure]]

\* lines 157-191 for call k with closure c: create the four nodes, connect
\* them, store the handles, start both oscillators, setIsPlaying(true)
FinishPlay(k, c) ==
    /\ graphs' = (k :> [oscFreq |-> c.carrierFreq, oscState |-> "started",
                        lfoFreq |-> c.lfoRate, lfoState |-> "started",
                        gain |-> GainNodeValue, lfoGain |-> LfoGainValue(c.depth)]) @@ graphs
    /\ refs' = [oscillatorRef |-> k, lfoOscillatorRef |-> k,
                gainNodeRef |-> k, lfoGainRef |-> k]
    /\ SetIsPlaying(TRUE)
    /\ UNCHANGED <<drawn, uncaught>>

\* setIsPlaying(true) made before the nodes are created
FailPlayAfterSetIsPlaying ==
    /\ uncaught' = uncaught \cup {"playSound"}
    /\ SetIsPlaying(TRUE)
    /\ UNCHANGED <<refs, graphs, drawn>>

\* an exception inside playSound rejects the promise the handler returned,
\* which onClick drops
FailPlay ==
    /\ uncaught' = uncaught \cup {"playSound"}
    /\ UNCHANGED <<lfo, refs, graphs, drawn>>

\* the Play button is enabled (disabled={isPlaying}) and playSound is not
\* turned back by its own test of isPlaying
CanClickPlay == lfoMounted /\ ~lfo.isPlaying /\ Len(calls) < MaxPlays

\* the context playSound goes on with: the one it has, or a new one, which
\* the browser hands out running or suspended
ContextStates == IF ctxState = "null" THEN {"running", "suspended"} ELSE {ctxState}

\* new AudioContext() throws
PlayContextFails ==
    /\ CanClickPlay
    /\ ctxState = "null"
    /\ calls' = Append(calls, [status |-> "rejected", closure |-> NoClosure])
    /\ FailPlay
    /\ UNCHANGED <<lfoMounted, ctxState, lastStop>>
    /\ UNCHANGED otherThanLfo

\* the context is suspended: playSound waits for resume()
PlayAwaits ==
    /\ CanClickPlay
    /\ "suspended" \in ContextStates
    /\ ctxState' = "suspended"
    /\ calls' = Append(calls, [status |-> "awaiting", closure |-> Params(lfo)])
    /\ UNCHANGED <<lfo, lfoMounted, refs, graphs, drawn, uncaught, lastStop>>
    /\ UNCHANGED otherThanLfo

\* the context is running: playSound runs to its end in the click
PlayRuns ==
    /\ CanClickPlay
    /\ "running" \in ContextStates
    /\ ctxState' = "running"
    /\ calls' = Append(calls, [status |-> "fulfilled", closure |-> NoClosure])
    /\ FinishPlay(Len(calls) + 1, Params(lfo))
    /\ lastStop' = -1
    /\ UNCHANGED lfoMounted
    /\ UNCHANGED otherThanLfo

\* the context is running and creating a node throws
PlayNodeFails ==
    /\ CanClickPlay
    /\ "running" \in ContextStates
    /\ ctxState' = "running"
    /\ calls' = Append(calls, [status |-> "rejected", closure |-> NoClosure])
    /\ FailPlay
    /\ UNCHANGED <<lfoMounted, lastStop>>
    /\ UNCHANGED otherThanLfo

Awaiting(k) == k \in 1..Len(calls) /\ calls[k].status = "awaiting"

\* resume() resolves and the rest of call k runs
ResumeResolves(k) ==
    /\ Awaiting(k)
    /\ ctxState' = "running"
    /\ Settle(k, "fulfilled")
    /\ FinishPlay(k, calls[k].closure)
    /\ lastStop' = -1
    /\ UNCHANGED lfoMounted
    /\ UNCHANGED otherThanLfo

\* resume() resolves and creating a node throws
ResumeNodeFails(k) ==
    /\ Awaiting(k)
    /\ ctxState' = "running"
    /\ Settle(k, "rejected")
    /\ FailPlay
    /\ UNCHANGED <<lfoMounted, lastStop>>
    /\ UNCHANGED otherThanLfo

\* resume() rejects
ResumeRejects(k) ==
    /\ Awaiting(k)
    /\ Settle(k, "rejected")
    /\ FailPlay
    /\ UNCHANGED <<lfoMounted, ctxState, lastStop>>
    /\ UNCHANGED otherThanLfo

-----------------------------------------------------------------------------
(* LFOEffects: stopSound, the Stop button and the cleanup on unmount.      *)

\* OscillatorNode.stop() throws InvalidStateError on a node never started
CanStop(state) == state \in {"started", "stopped"}

\* the oscillators stopped and the handles kept
StopSoundKeepsHandles ==
    LET o == refs.oscillatorRef
        l == refs.lfoOscillatorRef
        g1 == IF o # Null THEN [graphs EXCEPT ![o].oscState = "stopped"] ELSE graphs
        g2 == IF l # Null THEN [g1 EXCEPT ![l].lfoState = "stopped"] ELSE g1
    IN  /\ graphs' = g2
        /\ refs' = refs
        /\ lastStop' = (IF o # Null THEN 1 ELSE 0) + (IF l # Null THEN 1 ELSE 0)
        /\ uncaught' = uncaught
        /\ SetIsPlaying(FALSE)

StopSound ==
    LET o == refs.oscillatorRef
        l == refs.lfoOscillatorRef
        oThrows == o # Null /\ ~CanStop(graphs[o].oscState)
        g1 == IF o # Null /\ ~oThrows THEN [graphs EXCEPT ![o].oscState = "stopped"] ELSE graphs
        r1 == IF o # Null /\ ~oThrows THEN [refs EXCEPT !.oscillatorRef = Null] ELSE refs
        lThrows == ~oThrows /\ l # Null /\ ~CanStop(g1[l].lfoState)
        lStops == ~oThrows /\ l # Null /\ ~lThrows
        g2 == IF lStops THEN [g1 EXCEPT ![l].lfoState = "stopped"] ELSE g1
        r2 == IF lStops THEN [r1 EXCEPT !.lfoOscillatorRef = Null] ELSE r1
    IN  /\ graphs' = g2
        /\ refs' = r2
        /\ lastStop' = (IF o # Null /\ ~oThrows THEN 1 ELSE 0) + (IF lStops THEN 1 ELSE 0)
        /\ uncaught' = IF oThrows \/ lThrows THEN uncaught \cup {"stopSound"} ELSE uncaught
        /\ IF oThrows \/ lThrows THEN lfo' = lfo ELSE SetIsPlaying(FALSE)

\* the Stop button is enabled (disabled={!isPlaying})
StopClick ==
    /\ lfoMounted
    /\ lfo.isPlaying
    /\ StopSound
    /\ UNCHANGED <<lfoMounted, ctxState, calls, drawn>>
    /\ UNCHANGED otherThanLfo

\* the route changes: the cleanup of the mount effect calls stopSound
LfoUnmount ==
    /\ lfoMounted
    /\ StopSound
    /\ lfoMounted' = FALSE
    /\ UNCHANGED <<ctxState, calls, drawn>>
    /\ UNCHANGED otherThanLfo

-----------------------------------------------------------------------------
(* BiquadVisualizer.  The delay-line values are in thousandths.            *)

\* steps.length: the seven descriptors of the steps array
StepsLength == 7

\* the options of the speed select, in milliseconds
SpeedOptions == {2000, 1000, 500}

BiquadInit ==
    /\ biquad = [step |-> 0, isPlaying |-> FALSE, speed |-> 1000,
                 x1 |-> 500, x2 |-> 0, y1 |-> 300, y2 |-> 100]
    /\ biquadMounted = TRUE
    /\ intervals = {}
    /\ run = [start |-> 0, len |-> 0]

-----------------------------------------------------------------------------
(* BiquadVisualizer: the example values and what the render computes from  *)
(* them.  Coefficients and samples are in thousandths, their products in   *)
(* millionths.                                                             *)

\* Sample values for demonstration
x == <<0, 500, 1000, 800, 300, -200, -600, -400>>

currentIndex == 2

\* x[currentIndex]: the array is indexed from 0
CurrentInput == x[currentIndex + 1]

\* Biquad coefficients (example lowpass)
b0 == 67
b1 == 134
b2 == 67
a1 == -1143
a2 == 413

\* Number.prototype.toFixed: v, a multiple of 1/(unit * q), to the nearest
\* multiple of 1/unit, a tie away from zero
ToFixed(v, q) ==
    IF v >= 0 THEN (2 * v + q) \div (2 * q) ELSE 0 - ((2 * (0 - v) + q) \div (2 * q))

\* b0*x[currentIndex] + b1*x1 + b2*x2, as the equation of step 4 computes it
Feedforward == b0 * CurrentInput + b1 * biquad.x1 + b2 * biquad.x2

\* -a1*y1 - a2*y2, as the equation of step 5 computes it
Feedback == (0 - a1) * biquad.y1 - a2 * biquad.y2

\* the feedback added with the sign of the coefficients
ynFeedbackSignKept ==
    b0 * CurrentInput + b1 * biquad.x1 + b2 * biquad.x2 + a1 * biquad.y1 + a2 * biquad.y2

yn == b0 * CurrentInput + b1 * biquad.x1 + b2 * biquad.x2 - a1 * biquad.y1 - a2 * biquad.y2

\* the text under y[n] in the diagram: yn.toFixed(2), in hundredths
ynLabel == ToFixed(yn, 10000)

\* the steps array; an equation is the sequence of the numbers its template
\* prints: toFixed(3) in thousandths, toFixed(1) in tenths
steps ==
    << [title |-> "Step 1: Input Signal", highlight |-> "input", equation |-> << >>],
       [title |-> "Step 2: Store Previous Inputs", highlight |-> "delays-x", equation |-> << >>],
       [title |-> "Step 3: Store Previous Outputs", highlight |-> "delays-y", equation |-> << >>],
       [title |-> "Step 4: Feedforward Path", highlight |-> "feedforward",
        equation |-> << ToFixed(b0, 1), ToFixed(CurrentInput, 100),
                        ToFixed(b1, 1), ToFixed(biquad.x1, 100),
                        ToFixed(b2, 1), ToFixed(biquad.x2, 100),
                        ToFixed(b0 * CurrentInput + b1 * biquad.x1 + b2 * biquad.x2, 1000) >>],
       [title |-> "Step 5: Feedback Path", highlight |-> "feedback",
        equation |-> << ToFixed(0 - a1, 1), ToFixed(biquad.y1, 100),
                        ToFixed(0 - a2, 1), ToFixed(biquad.y2, 100),
                        ToFixed((0 - a1) * biquad.y1 - a2 * biquad.y2, 1000) >>],
       [title |-> "Step 6: Combine & Output", highlight |-> "output",
        equation |-> << ToFixed(b0 * CurrentInput + b1 * biquad.x1 + b2 * biquad.x2
                                    - a1 * biquad.y1 - a2 * biquad.y2, 1000) >>],
       [title |-> "Step 7: Update State", highlight |-> "update", equation |-> << >>] >>

\* const currentStep = steps[step]
currentStep == steps[biquad.step + 1]

\* the shifts the description of step 7 lists, in its order, as <<target,
\* source>>: x[n-2] <- x[n-1], x[n-1] <- x[n], y[n-2] <- y[n-1], y[n-1] <- y[n]
\* (the diagram labels x1 as x[n-1], x2 as x[n-2], y1 as y[n-1], y2 as y[n-2])
UpdateStateShiftsNewestFirst ==
    << <<"x1", "x">>, <<"x2", "x1">>, <<"y1", "y">>, <<"y2", "y1">> >>

UpdateStateShifts ==
    << <<"x2", "x1">>, <<"x1", "x">>, <<"y2", "y1">>, <<"y1", "y">> >>

\* one shift applied to the delay line, x[n] being newX and y[n] newY
ShiftOnce(state, shift, newX, newY) ==
    [state EXCEPT ![shift[1]] = IF shift[2] = "x" THEN newX
                                ELSE IF shift[2] = "y" THEN newY
                                ELSE state[shift[2]]]

\* the shifts of step 7 applied one after the other
advance(state, newX, newY) ==
    LET s1 == ShiftOnce(state, UpdateStateShifts[1], newX, newY)
        s2 == ShiftOnce(s1, UpdateStateShifts[2], newX, newY)
        s3 == ShiftOnce(s2, UpdateStateShifts[3], newX, newY)
    IN  ShiftOnce(s3, UpdateStateShifts[4], newX, newY)

\* outputs y[n] fed to the delay line, in thousandths
OutputVals == {-300, 0, 436}

\* useState(0.5), useState(0), useState(0.3), useState(0.1)
DelayInit == [x1 |-> 500, x2 |-> 0, y1 |-> 300, y2 |-> 100]

\* the delay line as the component starts it; before is the line before the
\* last update, inputs the <<x[n], y[n]>> of the last two updates
LineInit == line = [state |-> DelayInit, before |-> DelayInit, inputs |-> << >>]

\* the update of step 7, for a sample of x and an output
Advance(newX, newY) ==
    /\ line' = [state |-> advance(line.state, newX, newY),
                before |-> line.state,
                inputs |-> IF Len(line.inputs) < 2
                           THEN Append(line.inputs, <<newX, newY>>)
                           ELSE <<line.inputs[2], <<newX, newY>> >>]
    /\ UNCHANGED <<lfoVars, biquadVars, wave>>

\* the updater without the modulo
AdvanceStepWithoutWrap(prev) == prev + 1

\* the updater wrapping one step early
AdvanceStepWrapsEarly(prev) == (prev + 1) % (StepsLength - 1)

\* the updater the interval callback passes to setStep
AdvanceStep(prev) == (prev + 1) % StepsLength

\* the cleanup the last run of the timer effect returned: clearInterval of
\* the interval it had set, if it had set one
ClearInterval(old, timers) == IF old.isPlaying THEN timers \ {old.speed} ELSE timers

\* the timer effect returning no cleanup
TimerEffectWithoutCleanup(old, new, timers) ==
    IF old.isPlaying = new.isPlaying /\ old.speed = new.speed
    THEN timers
    ELSE IF new.isPlaying THEN timers \cup {new.speed} ELSE timers

\* the timer effect, run after a render in which isPlaying or speed changed:
\* the cleanup of its last run, then setInterval when playing
TimerEffect(old, new, timers) ==
    IF old.isPlaying = new.isPlaying /\ old.speed = new.speed
    THEN timers
    ELSE LET cleared == ClearInterval(old, timers)
         IN  IF new.isPlaying THEN cleared \cup {new.speed} ELSE cleared

\* the Play / Pause button
TogglePlay ==
    /\ biquadMounted
    /\ biquad' = [biquad EXCEPT !.isPlaying = ~biquad.isPlaying]
    /\ intervals' = TimerEffect(biquad, biquad', intervals)
    /\ UNCHANGED <<biquadMounted, run>>
    /\ UNCHANGED otherThanBiquad

\* the Reset button
Reset ==
    /\ biquadMounted
    /\ biquad' = [biquad EXCEPT !.step = 0, !.isPlaying = FALSE]
    /\ intervals' = TimerEffect(biquad, biquad', intervals)
    /\ run' = [start |-> 0, len |-> 0]
    /\ UNCHANGED biquadMounted
    /\ UNCHANGED otherThanBiquad

\* a button of the step indicator
SelectStep(idx) ==
    /\ biquadMounted
    /\ biquad' = [biquad EXCEPT !.step = idx, !.isPlaying = FALSE]
    /\ intervals' = TimerEffect(biquad, biquad', intervals)
    /\ run' = [start |-> idx, len |-> 0]
    /\ UNCHANGED biquadMounted
    /\ UNCHANGED otherThanBiquad

\* the speed select
SetSpeed(v) ==
    /\ biquadMounted
    /\ v # biquad.speed
    /\ biquad' = [biquad EXCEPT !.speed = v]
    /\ intervals' = TimerEffect(biquad, biquad', intervals)
    /\ UNCHANGED <<biquadMounted, run>>
    /\ UNCHANGED otherThanBiquad

\* a tick that carries out the update of step 7 when it leaves that step
TickUpdatesState(delay) ==
    /\ delay \in intervals
    /\ biquad' = IF biquad.step = StepsLength - 1
                 THEN [advance(biquad, CurrentInput, ToFixed(yn, 1000))
                          EXCEPT !.step = AdvanceStep(biquad.step)]
                 ELSE [biquad EXCEPT !.step = AdvanceStep(biquad.step)]
    /\ intervals' = TimerEffect(biquad, biquad', intervals)
    /\ run' = IF run.len = StepsLength
              THEN [start |-> biquad.step, len |-> 1]
              ELSE [run EXCEPT !.len = run.len + 1]
    /\ UNCHANGED biquadMounted
    /\ UNCHANGED otherThanBiquad

\* an interval that is set fires
Tick(delay) ==
    /\ delay \in intervals
    /\ biquad' = [biquad EXCEPT !.step = AdvanceStep(biquad.step)]
    /\ intervals' = TimerEffect(biquad, biquad', intervals)
    /\ run' = IF run.len = StepsLength
              THEN [start |-> biquad.step, len |-> 1]
              ELSE [run EXCEPT !.len = run.len + 1]
    /\ UNCHANGED biquadMounted
    /\ UNCHANGED otherThanBiquad

\* the route changes: the cleanup of the timer effect runs
BiquadUnmount ==
    /\ biquadMounted
    /\ biquadMounted' = FALSE
    /\ intervals' = ClearInterval(biquad, intervals)
    /\ UNCHANGED <<biquad, run>>
    /\ UNCHANGED otherThanBiquad

-----------------------------------------------------------------------------
(* LFOEffects: the sample loop of drawWaveform, in fixed point.            *)
(*   carrierWave, lfoWave      multiples of 1/SinScale                     *)
(*   lfoModulator              multiples of 1/EnvUnit                      *)
(*   sample                    carrierWave * lfoModulator, in 1/SinScale   *)
(*   y - centerY, amplitude    multiples of 1/(100 * SinScale) pixel       *)

\* resolution of a phase: steps per half turn
HalfTurnSteps == 180

\* const samples = 2000
Samples == 2000

\* heights of the canvas, in pixels
HeightVals == {300}

\* parameters the waveform is drawn for
WaveCarrierVals == {200, 440, 1000}
WaveRateVals == {1, 10, 39, 40, 100, 400}
WaveDepthVals == DepthRange

EnvUnit == 200 * SinScale

\* Math.sin over the first half turn, n steps in: Bhaskara's rational
\* approximation 16 n (H - n) / (5 H^2 - 4 n (H - n)), within 0.002 of the sine
HalfSine(n) ==
    (SinScale * 16 * n * (HalfTurnSteps - n))
        \div (5 * HalfTurnSteps * HalfTurnSteps - 4 * n * (HalfTurnSteps - n))

\* Math.sin(2 * PI * num / den), num >= 0
Sin(num, den) ==
    LET n == ((num % den) * 2 * HalfTurnSteps) \div den
    IN  IF n < HalfTurnSteps THEN HalfSine(n) ELSE 0 - HalfSine(n - HalfTurnSteps)

\* const duration = lfoRate < 20 ? 1.0 : 0.1, in tenths of a second
Duration(rate) == IF rate < 2 * 20 THEN 10 ELSE 1

\* Math.sin(2 * PI * carrierFreq * t), t = (i / samples) * duration
CarrierWave(s, i) == Sin(s.carrierFreq * i * Duration(s.lfoRate), Samples * 10)

\* Math.sin(2 * PI * lfoRate * t)
LfoWave(s, i) == Sin(s.lfoRate * i * Duration(s.lfoRate), 2 * Samples * 10)

\* the bipolar modulator 1 + depthNorm * lfoWave
BipolarModulator(d, lfoWave) == EnvUnit + 2 * d * lfoWave

\* the two weights exchanged: depthNorm + (1 - depthNorm) * (lfoWave + 1) / 2
InvertedDepthModulator(d, lfoWave) == 2 * d * SinScale + (100 - d) * (lfoWave + SinScale)

\* 1 - depthNorm + depthNorm * (lfoWave + 1) / 2, depthNorm = depth / 100
LfoModulator(d, lfoWave) == EnvUnit - 2 * d * SinScale + d * (lfoWave + SinScale)

\* height * 0.35
Amplitude(height) == 35 * height * SinScale

NotDrawn == [i |-> 0, height |-> 0, carrierWave |-> 0, lfoWave |-> 0,
             lfoModulator |-> 0, sample |-> 0, yOffset |-> 0]

\* one pass of the loop body, for index i
SampleAt(s, height, i) ==
    LET c == CarrierWave(s, i)
        l == LfoWave(s, i)
        m == LfoModulator(s.depth, l)
        y == (c * m) \div EnvUnit
    IN  [i |-> i + 1, height |-> height, carrierWave |-> c, lfoWave |-> l,
         lfoModulator |-> m, sample |-> y, yOffset |-> 0 - y * 35 * height]

\* the loop of drawWaveform, one index a step
DrawSample ==
    /\ wave.i < Samples
    /\ wave' = SampleAt(lfo, wave.height, wave.i)
    /\ UNCHANGED <<lfoVars, biquadVars, line>>

-----------------------------------------------------------------------------
(* The specifications.                                                     *)

\* LFOEffects from its mount on: sliders, Play, Stop, the pending resume,
\* the unmount
Init == LfoInit /\ BiquadInit /\ wave = NotDrawn /\ LineInit

Next ==
    \/ \E v \in CarrierVals : SetCarrierFreq(v)
    \/ \E v \in RateVals : SetLfoRate(v)
    \/ \E v \in DepthVals : SetDepth(v)
    \/ PlayContextFails
    \/ PlayAwaits
    \/ PlayRuns
    \/ PlayNodeFails
    \/ \E k \in 1..MaxPlays : ResumeResolves(k)
    \/ \E k \in 1..MaxPlays : ResumeNodeFails(k)
    \/ \E k \in 1..MaxPlays : ResumeRejects(k)
    \/ StopClick
    \/ LfoUnmount

Spec == Init /\ [][Next]_vars

\* BiquadVisualizer from its mount on
NextBiquad ==
    \/ TogglePlay
    \/ Reset
    \/ \E idx \in 0..(StepsLength - 1) : SelectStep(idx)
    \/ \E v \in SpeedOptions : SetSpeed(v)
    \/ \E delay \in SpeedOptions : Tick(delay)
    \/ BiquadUnmount

SpecBiquad == Init /\ [][NextBiquad]_vars

\* the sliders alone, the LFO rate over its whole range
NextSliders ==
    \/ \E v \in WaveCarrierVals : SetCarrierFreq(v)
    \/ \E v \in RateRange : SetLfoRate(v)
    \/ \E v \in DepthVals : SetDepth(v)

SpecSliders == Init /\ [][NextSliders]_vars

\* one drawing of the waveform, for parameters the sliders can give
InitWave ==
    /\ \E c \in WaveCarrierVals, r \in WaveRateVals, d \in WaveDepthVals : LfoInitWith(c, r, d)
    /\ BiquadInit
    /\ \E h \in HeightVals : wave = [NotDrawn EXCEPT !.height = h]
    /\ LineInit

SpecWave == InitWave /\ [][DrawSample]_vars

\* the update of step 7 applied sample after sample
NextAdvance == \E i \in 1..Len(x), newY \in OutputVals : Advance(x[i], newY)

SpecAdvance == Init /\ [][NextAdvance]_vars

-----------------------------------------------------------------------------
(* The claims.                                                             *)

\* C1: for every LFO rate of the slider, getEffectInfo gives Tremolo below
\* 20 Hz, Transition from 20 Hz up to but not including 50 Hz, and Ring
\* Modulation from 50 Hz on (20 Hz is Transition, 50 Hz is Ring Modulation),
\* and no other carrier frequency, depth or playing state changes the type.
C1_Classification ==
    /\ lfo.lfoRate \in RateRange
    /\ lfo.lfoRate < 40 => effectInfo.type = "TREMOLO EFFECT"
    /\ (40 <= lfo.lfoRate /\ lfo.lfoRate < 100) => effectInfo.type = "TRANSITION ZONE"
    /\ lfo.lfoRate >= 100 => effectInfo.type = "RING MODULATION"
    /\ \A c \in CarrierRange, d \in DepthRange, p \in BOOLEAN :
          getEffectInfo([carrierFreq |-> c, lfoRate |-> lfo.lfoRate,
                         depth |-> d, isPlaying |-> p]).type = effectInfo.type

\* the slider stands at 20 Hz, not the default, and the display says Transition
C1_Witness ==
    /\ lfo.lfoRate = 40
    /\ lfo.carrierFreq # 440
    /\ effectInfo.type = "TRANSITION ZONE"

\* a stopSound call: the Stop button, or the cleanup on unmount
StopSoundStep == StopClick \/ LfoUnmount

HandlesReleased == refs.oscillatorRef = Null /\ refs.lfoOscillatorRef = Null

\* C2: every stopSound call ends without an exception, with both oscillator
\* handles null and isPlaying false; a call that finds both handles null
\* already (a second stop, or a stop when nothing was played) calls stop()
\* on nothing and changes nothing.
C2_StopIdempotent ==
    [][StopSoundStep =>
          /\ HandlesReleased'
          /\ ~lfo'.isPlaying
          /\ "stopSound" \notin uncaught'
          /\ HandlesReleased =>
                /\ lastStop' = 0
                /\ graphs' = graphs
                /\ refs' = refs
                /\ lfo' = lfo
                /\ uncaught' = uncaught]_vars

\* a stopSound that stopped nothing, after one that had stopped a pair
C2_Witness ==
    /\ lastStop = 0
    /\ \E k \in DOMAIN graphs : graphs[k].oscState = "stopped" /\ graphs[k].lfoState = "stopped"

Running(k) == graphs[k].oscState = "started" \/ graphs[k].lfoState = "started"

\* C3: after stopSound and after the unmount no oscillator playSound started
\* is running and both handles are null.
C3_Released ==
    (~lfoMounted \/ lastStop >= 0) =>
        /\ \A k \in DOMAIN graphs : ~Running(k)
        /\ HandlesReleased

\* call k becomes rejected in this step
PlayFailed(k) ==
    /\ k \in 1..Len(calls')
    /\ calls'[k].status = "rejected"
    /\ k > Len(calls) \/ calls[k].status = "awaiting"

\* C7: when a playSound call fails (the context cannot be created or resumed,
\* or a node cannot be created) the rejection reaches the caller of
\* playSound, and isPlaying, the handles, the audio nodes, the sliders'
\* values and the drawing are what they were; a slider moved after a failure
\* redraws the waveform for the new values.
C7_FailedPlayChangesNothing ==
    [][/\ \A k \in 1..(Len(calls) + 1) :
             PlayFailed(k) =>
                /\ "playSound" \in uncaught'
                /\ lfo' = lfo
                /\ refs' = refs
                /\ graphs' = graphs
                /\ drawn' = drawn
                /\ drawn' = Params(lfo')
       /\ ("playSound" \in uncaught /\ Params(lfo') # Params(lfo)) =>
             drawn' = Params(lfo')]_vars

\* the only playSound call failed, nothing plays, and a slider was moved
C7_Witness ==
    /\ Len(calls) = 1
    /\ calls[1].status = "rejected"
    /\ "playSound" \in uncaught
    /\ ~lfo.isPlaying
    /\ HandlesReleased
    /\ graphs = << >>
    /\ lfo.depth = 50
    /\ drawn = Params(lfo)

\* C8: while an oscillator pair is running, its carrier frequency is the
\* current carrierFreq, its LFO frequency the current lfoRate and its LFO
\* gain (current depth / 100) * 0.3.
C8_AudioFollowsSliders ==
    lfoMounted =>
        \A k \in DOMAIN graphs :
            Running(k) =>
                /\ graphs[k].oscFreq = lfo.carrierFreq
                /\ graphs[k].lfoFreq = lfo.lfoRate
                /\ graphs[k].lfoGain = 3 * lfo.depth

\* the LFO at its trough, its zero and its crest
LfoExtremes == {0 - SinScale, 0, SinScale}

\* C9: the gain of a running audio graph whose LFO gain is the one of the
\* plotted depth is a fixed multiple of the plotted envelope lfoModulator.
C9_GainMatchesEnvelope ==
    \A k \in DOMAIN graphs :
        (Running(k) /\ graphs[k].lfoGain = LfoGainValue(drawn.depth)) =>
            \A l1, l2 \in LfoExtremes :
                EffectiveGain(graphs[k], l1) * LfoModulator(drawn.depth, l2)
                    = EffectiveGain(graphs[k], l2) * LfoModulator(drawn.depth, l1)

\* a timer callback runs
TickStep == \E delay \in SpeedOptions : Tick(delay)

\* C4: a timer tick happens only while isPlaying is true and the component
\* is mounted: after Pause, Reset, a manual step selection or the unmount no
\* interval is left set, so no tick changes step until Play is pressed.
C4_TicksOnlyWhilePlaying ==
    [][/\ TickStep => (biquad.isPlaying /\ biquadMounted)
       /\ (~biquad'.isPlaying \/ ~biquadMounted') => intervals' = {}
       /\ (biquad'.isPlaying /\ biquadMounted') => intervals' = {biquad'.speed}]_vars

\* paused in the middle of a run of ticks, away from the step it started at
C4_Witness ==
    /\ biquadMounted
    /\ ~biquad.isPlaying
    /\ run.len = 3
    /\ biquad.step = 5
    /\ intervals = {}

\* C5: a run of consecutive ticks that started at step s stands, after n
\* ticks, at (s + n) mod 7: it is away from s for n = 1..6, visits 1, 2, 3,
\* 4, 5, 6 in that order when s = 0, and is back at s after seven ticks.
C5_CyclicSteps ==
    /\ run.len \in 0..7
    /\ biquad.step = (run.start + run.len) % 7
    /\ run.len = 7 => biquad.step = run.start
    /\ run.len \in 1..6 => biquad.step # run.start
    /\ (run.start = 0 /\ run.len \in 1..6) => biquad.step = run.len

\* seven ticks in a row from step 0
C5_Witness ==
    /\ run.start = 0
    /\ run.len = 7
    /\ biquad.step = 0
    /\ biquad.isPlaying

\* C6: the visualizer starts at step 0, not playing, and step is always one
\* of 0..6, an index of the steps array.
C6_StepInRange ==
    /\ biquad.step = 0 /\ ~biquad.isPlaying
    /\ [](biquad.step \in 0..6 /\ biquad.step < StepsLength)

\* the last step, reached by the timer
C6_Witness ==
    /\ biquad.step = 6
    /\ run.start = 0
    /\ run.len = 6
    /\ biquad.speed = 500

\* C10: for every sample drawn, lfoModulator lies in [1 - depth/100, 1],
\* which lies in [0, 1]; carrierWave * lfoModulator lies in [-1, 1]; and the
\* plotted y is within amplitude of centerY.
C10_SampleBounded ==
    wave.i > 0 =>
        /\ lfo.depth \in DepthRange
        /\ 0 <= 2 * SinScale * (100 - lfo.depth)
        /\ 2 * SinScale * (100 - lfo.depth) <= wave.lfoModulator
        /\ wave.lfoModulator <= EnvUnit
        /\ 0 - SinScale <= wave.sample /\ wave.sample <= SinScale
        /\ 0 - Amplitude(wave.height) <= wave.yOffset
        /\ wave.yOffset <= Amplitude(wave.height)

\* a sample at the trough of the LFO, the envelope at its lower bound
C10_Witness ==
    /\ wave.i > 0
    /\ lfo.depth = 37
    /\ wave.lfoWave = 0 - SinScale
    /\ wave.lfoModulator = 2 * SinScale * 63
    /\ wave.carrierWave # 0

\* C11: at depth 0 the envelope lfoModulator is 1 at every sample, whatever
\* the LFO does, and the plotted sample is the carrier
\* sin(2 pi carrierFreq t) itself.
C11_ZeroDepthIsCarrier ==
    (wave.i > 0 /\ lfo.depth = 0) =>
        /\ wave.lfoModulator = EnvUnit
        /\ wave.sample = wave.carrierWave
        /\ wave.carrierWave = Sin(lfo.carrierFreq * (wave.i - 1) * Duration(lfo.lfoRate),
                                  Samples * 10)
        /\ wave.yOffset = 0 - wave.carrierWave * 35 * wave.height

\* depth 0, the LFO at its trough and the carrier away from zero
C11_Witness ==
    /\ wave.i > 0
    /\ lfo.depth = 0
    /\ lfo.lfoRate = 400
    /\ wave.lfoWave = 0 - SinScale
    /\ wave.lfoModulator = EnvUnit
    /\ wave.sample = wave.carrierWave
    /\ wave.carrierWave # 0

\* C15: at most one oscillator pair is started and not stopped, and it is
\* the pair the handles oscillatorRef and lfoOscillatorRef hold.
C15_OnePairRunning ==
    /\ Cardinality({k \in DOMAIN graphs : Running(k)}) <= 1
    /\ \A k \in DOMAIN graphs :
          Running(k) => (refs.oscillatorRef = k /\ refs.lfoOscillatorRef = k)

\* C12: with the example coefficients, input 1.0 and state 0.5, 0, 0.3, 0.1
\* the feedforward term is 0.134, the feedback term 0.3016 and yn their sum
\* 0.4356; the equations of steps 4, 5 and 6 print 0.134, 0.302 and 0.436 and
\* the y[n] label 0.44, whatever the current step.
C12_ExampleValues ==
    /\ <<b0, b1, b2, a1, a2>> = <<67, 134, 67, -1143, 413>>
    /\ CurrentInput = 1000
    /\ <<biquad.x1, biquad.x2, biquad.y1, biquad.y2>> = <<500, 0, 300, 100>>
    /\ Feedforward = 134000
    /\ Feedback = 301600
    /\ yn = 435600
    /\ yn = Feedforward + Feedback
    /\ steps[4].equation = <<67, 10, 134, 5, 67, 0, 134>>
    /\ steps[5].equation = <<1143, 3, -413, 1, 302>>
    /\ steps[6].equation = <<436>>
    /\ ynLabel = 44

\* the timer has brought the animation to step 6, whose equation is shown
C12_Witness ==
    /\ biquad.step = 5
    /\ biquad.isPlaying
    /\ run = [start |-> 0, len |-> 5]
    /\ currentStep.title = "Step 6: Combine & Output"
    /\ currentStep.equation = <<436>>

\* C14: no step of the visualizer changes the delay-line values x1, x2, y1,
\* y2 or the output yn (the coefficients and currentIndex are constants of
\* the render): only step, isPlaying and speed change.
C14_OnlyStepPlayingSpeedChange ==
    [][/\ [biquad' EXCEPT !.step = biquad.step, !.isPlaying = biquad.isPlaying,
                          !.speed = biquad.speed] = biquad
       /\ yn' = yn
       /\ steps' = steps]_vars

\* seven ticks from step 3, through step 7 and the wrap to step 0, at the
\* slow speed, then Pause: the delay line is as it started
C14_Witness ==
    /\ run = [start |-> 3, len |-> 7]
    /\ biquad.step = 3
    /\ biquad.speed = 2000
    /\ ~biquad.isPlaying
    /\ <<biquad.x1, biquad.x2, biquad.y1, biquad.y2>> = <<500, 0, 300, 100>>

\* C13: the update step 7 announces shifts the delay line: x2 takes the old
\* x1, x1 the new input, y2 the old y1, y1 the new output; after two updates
\* with (x, y) and then (x', y') the line is x2 = x, x1 = x', y2 = y, y1 = y'.
C13_AdvanceShifts ==
    /\ steps[7].title = "Step 7: Update State"
    /\ Len(line.inputs) >= 1 =>
          LET last == line.inputs[Len(line.inputs)]
          IN  /\ line.state.x2 = line.before.x1
              /\ line.state.x1 = last[1]
              /\ line.state.y2 = line.before.y1
              /\ line.state.y1 = last[2]
    /\ Len(line.inputs) = 2 =>
          line.state = [x2 |-> line.inputs[1][1], x1 |-> line.inputs[2][1],
                        y2 |-> line.inputs[1][2], y1 |-> line.inputs[2][2]]

\* two updates, with (0.8, 0.436) and then (-0.2, -0.3)
C13_Witness ==
    /\ line.inputs = << <<800, 436>>, <<-200, -300>> >>
    /\ line.state = [x2 |-> 800, x1 |-> -200, y2 |-> 436, y1 |-> -300]

=============================================================================
